---- MODULE Spec2Model ----
(***************************************************************************)
(* Ultrasonic rangefinder + servo sweep scanner (SensorCalibration(1).ino) *)
(* and the servo calibration sketch (servo_calibration.ino).               *)
(*                                                                         *)
(* loop() is one polling tick.  A tick in which a step is due blocks for   *)
(* 230..530 ms inside scanAtAngle (one 20 ms servo frame, 10 ms settle,    *)
(* ten measurements of up to 30 ms each followed by 20 ms), so the tick is *)
(* modelled as two actions, loop (poll, gate) and loop_scan (scan, report, *)
(* advance), between which the buttons and the clock may change.           *)
(***************************************************************************)
EXTENDS Integers, Sequences, FiniteSets, TLC

VARIABLES
  emergency_stop,    \* bool emergency_stop                      (line 91)
  currentMode,       \* int currentMode, 0 = MODE 1, 1 = MODE 2  (line 92)
  stop_WasPressed,   \* edge latch of the stop button            (line 95)
  mode_WasPressed,   \* edge latch of the mode button            (line 96)
  stop_buttonstate,  \* last polled level of the stop button     (line 98)
  mode_buttonstate,  \* last polled level of the mode button     (line 99)
  incrementAngle,    \* step size in degrees                     (line 88)
  lastStepTime,      \* unsigned long lastStepTime               (line 240)
  ang,               \* static int ang                           (line 248)
  direction,         \* static int direction                     (line 249)
  repeatBoundary,    \* static bool repeatBoundary               (line 250)
  firstCycle,        \* static bool firstCycle                   (line 251)
  pins,              \* levels of trig_pin, pinServo, ledGreen and ledRed
  pc,                \* "loop": between ticks; "scan": blocked in scanAtAngle
  stopPin,           \* electrical level of the stop button input
  modePin,           \* electrical level of the mode button input
  clock,             \* value of millis(): unsigned 32 bits, as two 16-bit halves
  serial,            \* report lines printed by the current tick
  servo,             \* pulse widths of the servo frames sent by the current tick
  trig,              \* number of trigger pulses sent by the current tick
  stopToggles,       \* toggles of emergency_stop since the stop input last rose
  modeToggles,       \* toggles of currentMode since the mode input last rose
  lastAng,           \* angle of the previous report line (0: none yet)
  runLen,            \* consecutive report lines carrying lastAng
  turned,            \* the last step negated direction
  nLines,            \* report lines so far, capped at MaxLines
  half,              \* angles reported since the last reversal (SpecFull only)
  calAngle,          \* servo_calibration.ino: the angle parsed from the line
  calPulse,          \* servo_calibration.ino: pulse width sent, 0 if none
  calReply,          \* servo_calibration.ino: "none", "set" or "range"
  scanIn,            \* SpecScan: what pulseIn returns for each of 10 measurements
  scanOut,           \* SpecScan: out[11] as scanAtAngle leaves it (<<>>: not called)
  scanLog,           \* SpecScan: servo frames and trigger pulses, in order
  sinceStep          \* SpecClock: ms since the last step began (since start if
                     \* none), capped at stepInterval

progVars == <<emergency_stop, currentMode, stop_WasPressed, mode_WasPressed,
              stop_buttonstate, mode_buttonstate, incrementAngle, lastStepTime,
              ang, direction, repeatBoundary, firstCycle, pins, pc>>
envVars == <<stopPin, modePin, clock>>
outVars == <<serial, servo, trig>>
tapVars == <<stopToggles, modeToggles>>
lineVars == <<lastAng, runLen, turned, nLines>>
calVars == <<calAngle, calPulse, calReply>>
scanVars == <<scanIn, scanOut, scanLog>>
\* Recorded only by the specifications that observe them.
sideVars == <<half, scanVars, sinceStep>>
vars == <<progVars, envVars, outVars, tapVars, lineVars, sideVars, calVars>>

----------------------------------------------------------------------------
(* Program constants *)

LOW == 0
HIGH == 1
startAngle == 30
endAngle == 150
samplesPerAngle == 10
stepInterval == 500
ServoPeriod == 20000
\* 2^16: an unsigned long is kept as two 16-bit halves, [hi, lo].
Half16 == 65536

----------------------------------------------------------------------------
(* Bounds of the model *)

\* The clock advances in quanta of half a step interval and stays within
\* ClockWindow quanta of the wrap-around of millis(); a long idle period
\* takes it from the top of the window to just before the wrap-around.
ClockWindow == 1
\* Report lines counted by nLines.
MaxLines == 2
\* Run lengths counted by runLen.
MaxRun == 3
\* Commands to the calibration sketch range over -MaxOver .. 180 + MaxOver.
MaxOver == 20

Quantum == stepInterval \div 2
Window == ClockWindow * Quantum

----------------------------------------------------------------------------
(* Arduino core functions used by the sketches *)

\* C integer division truncates toward zero.
TruncDiv(a, b) == IF (a >= 0) = (b > 0) THEN a \div b ELSE -((-a) \div b)

\* constrain(x, lo, hi)
constrain(x, lo, hi) == IF x < lo THEN lo ELSE IF x > hi THEN hi ELSE x

\* Mutant: the division is done before the multiplication.
map_divFirst(x, in_min, in_max, out_min, out_max) ==
  TruncDiv(x - in_min, in_max - in_min) * (out_max - out_min) + out_min

\* long map(long x, long in_min, long in_max, long out_min, long out_max)
map(x, in_min, in_max, out_min, out_max) ==
  TruncDiv((x - in_min) * (out_max - out_min), in_max - in_min) + out_min

----------------------------------------------------------------------------
(* Servo control *)

\* Mutant: the angle is mapped without being constrained first.
usFromAngle_unconstrained(deg) == map(deg, 0, 180, 500, 2500)

usFromAngle(deg) == map(constrain(deg, 0, 180), 0, 180, 500, 2500)

\* One servo frame: the HIGH and LOW durations in microseconds.
servoPulse(t_high_us) == [high |-> t_high_us, low |-> ServoPeriod - t_high_us]

setServoAngle(angle_deg) == servoPulse(usFromAngle(angle_deg))

----------------------------------------------------------------------------
(* Ultrasonic sensor.  A float is modelled as NaN or a fixed-point number *)
(* of 1e-5 units: [nan |-> TRUE] or [nan |-> FALSE, v |-> n].             *)

NaN == [nan |-> TRUE, v |-> 0]
Fix(n) == [nan |-> FALSE, v |-> n]

\* Mutant: a measurement that times out is triggered once more.
measureEcho_retry(i, echo) ==
  IF echo = 0 THEN <<[op |-> "trig", arg |-> i], [op |-> "trig", arg |-> i]>>
  ELSE <<[op |-> "trig", arg |-> i]>>

\* measureEcho(), called for slot i with pulseIn returning echo: the trigger
\* pulses it sends.
measureEcho(i, echo) == <<[op |-> "trig", arg |-> i]>>

\* pulseIn returns 0 on timeout; echo * 0.0343f * 0.5f, in 1e-5 cm.
readDistanceCm(echo) == IF echo = 0 THEN NaN ELSE Fix(echo * 1715)

\* (1.049396f * meas_cm - 0.673890f) / 100.0f, in 1e-5 m (the slope is
\* taken to four decimals to stay within TLC's 32-bit integers).
sensorCalibration(meas_cm) ==
  IF meas_cm.nan THEN NaN
  ELSE Fix(TruncDiv(((10494 * (meas_cm.v \div 100)) \div 100) - 67389, 100))

\* Mutant: the sign of the sample is not tested.
validSample_finite(d_m) == ~d_m.nan

\* isfinite(d_m) && d_m > 0.0f
validSample(d_m) == ~d_m.nan /\ d_m.v > 0

----------------------------------------------------------------------------
(* Scanning and reporting *)

RECURSIVE sumValid(_, _)
sumValid(out, n) ==
  IF n = 0 THEN 0
  ELSE sumValid(out, n - 1) + (IF validSample(out[n]) THEN out[n].v ELSE 0)

RECURSIVE cntValid(_, _)
cntValid(out, n) ==
  IF n = 0 THEN 0
  ELSE cntValid(out, n - 1) + (IF validSample(out[n]) THEN 1 ELSE 0)

\* The trigger pulses of the first n measurements of a step.
RECURSIVE trigLog(_, _)
trigLog(echoes, n) ==
  IF n = 0 THEN <<>>
  ELSE trigLog(echoes, n - 1) \o measureEcho(n, echoes[n])

\* Mutant: the scan is abandoned when the stop button is down.
scanAtAngle_untilStop(angle_deg, echoes) ==
  [out |-> [i \in 1..11 |-> IF i <= 10 THEN Fix(0) ELSE NaN],
   servo |-> <<setServoAngle(angle_deg)>>,
   trig |-> IF stopPin = HIGH THEN 0 ELSE 10]

\* scanAtAngle(angle_deg, out): echoes[i] is what pulseIn returns for the
\* i-th measurement.  The result holds the 11 slots of out[], the servo
\* frames sent and the number of trigger pulses sent.
scanAtAngle(angle_deg, echoes) ==
  LET n == IF samplesPerAngle > 10 THEN 10 ELSE samplesPerAngle
      raw == [i \in 1..10 |->
                IF i <= n THEN sensorCalibration(readDistanceCm(echoes[i]))
                ELSE Fix(0)]
      cnt == cntValid(raw, n)
      sum == sumValid(raw, n)
      mean == IF cnt > 0 THEN Fix(sum \div cnt) ELSE NaN
  IN [out |-> [i \in 1..11 |-> IF i <= 10 THEN raw[i] ELSE mean],
      servo |-> <<setServoAngle(angle_deg)>>,
      trig |-> Len(trigLog(echoes, n)),
      log |-> <<[op |-> "servo", arg |-> usFromAngle(angle_deg)]>>
              \o trigLog(echoes, n)]

\* Mutant: NaN is printed as 0.00.
print2_nanAsZero(x) ==
  [nan |-> FALSE,
   cents |-> IF x.nan THEN 0
             ELSE IF x.v >= 0 THEN (x.v + 500) \div 1000
             ELSE -((-x.v + 500) \div 1000)]

\* Serial.print(x, 2): two decimals, rounded; "nan" for NaN.  The printed
\* field is its number of hundredths.
print2(x) ==
  IF x.nan THEN [nan |-> TRUE, cents |-> 0]
  ELSE [nan |-> FALSE,
        cents |-> IF x.v >= 0 THEN (x.v + 500) \div 1000
                  ELSE -((-x.v + 500) \div 1000)]

\* Mutant: the line is tagged with currentMode itself.
sendAngleBlock_rawMode(angle_deg, a, mode) ==
  [mode |-> mode,
   angle |-> angle_deg,
   fields |-> [i \in 1..11 |-> print2(a[i])]]

\* sendAngleBlock(angle_deg, a, currentMode): one report line.
sendAngleBlock(angle_deg, a, mode) ==
  [mode |-> IF mode = 0 THEN 1 ELSE 2,
   angle |-> angle_deg,
   fields |-> [i \in 1..11 |-> print2(a[i])]]

----------------------------------------------------------------------------
(* Buttons *)

\* Mutant: the latch is kept but not consulted.
stop_checkButton_noLatch(level) ==
  [state |-> level,
   was |-> level = HIGH,
   flag |-> IF level = HIGH THEN ~emergency_stop ELSE emergency_stop,
   hit |-> level = HIGH]

\* stop_checkButton(), reading `level` from the stop input.
stop_checkButton(level) ==
  LET hit == ~stop_WasPressed /\ level = HIGH
      was == IF hit THEN TRUE ELSE stop_WasPressed
  IN [state |-> level,
      was |-> IF level = LOW THEN FALSE ELSE was,
      flag |-> IF hit THEN ~emergency_stop ELSE emergency_stop,
      hit |-> hit]

\* Mutant: the mode button is ignored while the sweep is stopped.
mode_checkButton_unlessStopped(level) ==
  LET hit == ~mode_WasPressed /\ level = HIGH /\ ~emergency_stop
      was == IF hit THEN TRUE ELSE mode_WasPressed
  IN [state |-> level,
      was |-> IF level = LOW THEN FALSE ELSE was,
      flag |-> IF hit THEN (IF currentMode = 0 THEN 1 ELSE 0) ELSE currentMode,
      hit |-> hit]

\* mode_checkButton(), reading `level` from the mode input.
mode_checkButton(level) ==
  LET hit == ~mode_WasPressed /\ level = HIGH
      was == IF hit THEN TRUE ELSE mode_WasPressed
  IN [state |-> level,
      was |-> IF level = LOW THEN FALSE ELSE was,
      flag |-> IF hit THEN (IF currentMode = 0 THEN 1 ELSE 0) ELSE currentMode,
      hit |-> hit]

\* stop_all(): the output levels it forces.
stop_all(p) ==
  [p EXCEPT !.trig = LOW, !.servo = LOW, !.red = HIGH, !.green = LOW]

----------------------------------------------------------------------------
(* The step gate: unsigned 32-bit arithmetic on [hi, lo] *)

Sub32(a, b) ==
  LET borrow == IF a.lo < b.lo THEN 1 ELSE 0
  IN [hi |-> (a.hi - b.hi - borrow) % Half16, lo |-> (a.lo - b.lo) % Half16]

Add32(a, d) ==
  [hi |-> (a.hi + ((a.lo + d) \div Half16)) % Half16, lo |-> (a.lo + d) % Half16]

Geq32(a, n) == a.hi > 0 \/ a.lo >= n

\* Mutant: millis() >= lastStepTime + stepInterval, the sum taken without
\* wrap-around.
stepDue_noWrap(now, last) ==
  LET sumLo == last.lo + stepInterval
      hi == last.hi + (sumLo \div Half16)
      lo == sumLo % Half16
  IN now.hi > hi \/ (now.hi = hi /\ now.lo >= lo)

\* Mutant: the difference is taken as a signed 32-bit number.
stepDue_signed(now, last) ==
  Sub32(now, last).hi < Half16 \div 2 /\ Geq32(Sub32(now, last), stepInterval)

\* millis() - lastStepTime >= stepInterval
stepDue(now, last) == Geq32(Sub32(now, last), stepInterval)

\* Mutant: the two step sizes exchanged.
stepSize_swapped(mode) == IF mode = 0 THEN 20 ELSE 10

\* Mutant: the step of MODE 2 is 15 degrees.
stepSize_fifteen(mode) == IF mode = 0 THEN 10 ELSE 15

\* Mutant: the step size is taken from currentMode as it was before the poll.
stepSize_beforePoll(mode) == IF currentMode = 0 THEN 10 ELSE 20

\* incrementAngle = (!currentMode ? 10 : 20)
stepSize(mode) == IF mode = 0 THEN 10 ELSE 20

\* Mutant: the upper clamp is missing.
clampAngle_lowerOnly(a) == IF a < startAngle THEN startAngle ELSE a

\* if (ang < startAngle) ang = startAngle; if (ang > endAngle) ang = endAngle;
clampAngle(a) ==
  LET a1 == IF a < startAngle THEN startAngle ELSE a
  IN IF a1 > endAngle THEN endAngle ELSE a1

\* Mutant: direction is negated on the first visit of a boundary, without
\* the repeated sample.
sweepStep_noRepeat(a, dir, rep, first, inc) ==
  LET atBoundary == a = startAngle \/ a = endAngle
      dir1 == IF atBoundary /\ ~first THEN -dir ELSE dir
  IN [ang |-> clampAngle(a + dir1 * inc),
      direction |-> dir1,
      repeatBoundary |-> FALSE,
      firstCycle |-> IF atBoundary THEN FALSE ELSE first]

\* Mutant: the startup flag is cleared but not consulted.
sweepStep_noFirstCycle(a, dir, rep, first, inc) ==
  LET atBoundary == a = startAngle \/ a = endAngle
  IN IF atBoundary /\ ~rep
     THEN [ang |-> a, direction |-> dir, repeatBoundary |-> TRUE, firstCycle |-> FALSE]
     ELSE LET dir1 == IF atBoundary THEN -dir ELSE dir
          IN [ang |-> clampAngle(a + dir1 * inc),
              direction |-> dir1,
              repeatBoundary |-> IF atBoundary THEN FALSE ELSE rep,
              firstCycle |-> IF atBoundary THEN FALSE ELSE first]

\* Mutant: a step begun while the stop button is still held down (the tick
\* that polled the resuming press) restarts the sweep.
sweepStep_restartAfterStop(a, dir, rep, first, inc) ==
  IF stop_buttonstate = HIGH
  THEN [ang |-> startAngle, direction |-> 1, repeatBoundary |-> FALSE,
        firstCycle |-> TRUE]
  ELSE LET atBoundary == a = startAngle \/ a = endAngle
       IN IF atBoundary /\ ~first /\ ~rep
          THEN [ang |-> a, direction |-> dir, repeatBoundary |-> TRUE,
                firstCycle |-> first]
          ELSE LET dir1 == IF atBoundary /\ ~first THEN -dir ELSE dir
               IN [ang |-> clampAngle(a + dir1 * inc),
                   direction |-> dir1,
                   repeatBoundary |-> IF atBoundary /\ ~first THEN FALSE ELSE rep,
                   firstCycle |-> IF atBoundary THEN FALSE ELSE first]

\* The boundary handling and the advance that end a step (lines 269-286).
sweepStep(a, dir, rep, first, inc) ==
  LET atBoundary == a = startAngle \/ a = endAngle
  IN IF atBoundary /\ ~first /\ ~rep
     THEN [ang |-> a, direction |-> dir, repeatBoundary |-> TRUE, firstCycle |-> first]
     ELSE LET dir1 == IF atBoundary /\ ~first THEN -dir ELSE dir
          IN [ang |-> clampAngle(a + dir1 * inc),
              direction |-> dir1,
              repeatBoundary |-> IF atBoundary /\ ~first THEN FALSE ELSE rep,
              firstCycle |-> IF atBoundary THEN FALSE ELSE first]

----------------------------------------------------------------------------
(* Inputs *)

\* Echo durations (microseconds) of the ten measurements of a step: every
\* measurement timing out, or a mix of timeouts, echoes short enough
\* (20 us) to calibrate to a negative distance, and echoes of 1200 us.
EchoRuns ==
  { [i \in 1..10 |-> 0],
    [i \in 1..10 |-> IF i % 3 = 0 THEN 0 ELSE IF i % 3 = 1 THEN 20 ELSE 1200] }

\* The outcome of the measurement of slot i: a timeout (pulseIn returns 0),
\* an echo short enough (20 us) to calibrate to a negative distance, or an
\* echo of 500 + 100 * i us, which calibrates to a positive distance that
\* differs from slot to slot.
EchoOf(kind, i) ==
  IF kind = "timeout" THEN 0 ELSE IF kind = "short" THEN 20 ELSE 500 + 100 * i
EchoSets ==
  {[i \in 1..10 |-> EchoOf(k[i], i)] : k \in [1..10 -> {"timeout", "short", "echo"}]}

InWindow(t) ==
  \/ t.hi = 0 /\ t.lo <= Window
  \/ t.hi = Half16 - 1 /\ t.lo >= Half16 - Window

Min(a, b) == IF a < b THEN a ELSE b

----------------------------------------------------------------------------
(* State after setup() *)

Init ==
  /\ emergency_stop = FALSE
  /\ currentMode = 0
  /\ stop_WasPressed = FALSE
  /\ mode_WasPressed = FALSE
  /\ stop_buttonstate = LOW
  /\ mode_buttonstate = LOW
  /\ incrementAngle = 10
  /\ lastStepTime = [hi |-> 0, lo |-> 0]
  /\ ang = startAngle
  /\ direction = 1
  /\ repeatBoundary = FALSE
  /\ firstCycle = TRUE
  /\ pins = [trig |-> LOW, servo |-> LOW, green |-> LOW, red |-> LOW]
  /\ pc = "loop"
  /\ stopPin = LOW
  /\ modePin = LOW
  /\ clock = [hi |-> 0, lo |-> 0]
  /\ serial = <<>>
  /\ servo = <<>>
  /\ trig = 0
  /\ stopToggles = 0
  /\ modeToggles = 0
  /\ lastAng = 0
  /\ runLen = 0
  /\ turned = FALSE
  /\ nLines = 0
  /\ half = <<>>
  /\ scanIn = [i \in 1..10 |-> 0]
  /\ scanOut = <<>>
  /\ scanLog = <<>>
  /\ sinceStep = 0
  /\ calAngle = 0
  /\ calPulse = 0
  /\ calReply = "none"

\* The state in which the first step begins: 500 ms after setup(), no button
\* pressed, loop() has passed the step gate.  The outcomes of the ten
\* measurements of the step are drawn from EchoSets.
InitScan ==
  /\ scanIn \in EchoSets
  /\ scanOut = <<>> /\ scanLog = <<>> /\ sinceStep = 0
  /\ pc = "scan"
  /\ clock = [hi |-> 0, lo |-> stepInterval]
  /\ lastStepTime = [hi |-> 0, lo |-> stepInterval]
  /\ pins = [trig |-> LOW, servo |-> LOW, green |-> HIGH, red |-> LOW]
  /\ emergency_stop = FALSE /\ currentMode = 0 /\ incrementAngle = 10
  /\ stop_WasPressed = FALSE /\ mode_WasPressed = FALSE
  /\ stop_buttonstate = LOW /\ mode_buttonstate = LOW
  /\ stopPin = LOW /\ modePin = LOW
  /\ ang = startAngle /\ direction = 1
  /\ repeatBoundary = FALSE /\ firstCycle = TRUE
  /\ serial = <<>> /\ servo = <<>> /\ trig = 0
  /\ stopToggles = 0 /\ modeToggles = 0
  /\ lastAng = 0 /\ runLen = 0 /\ turned = FALSE /\ nLines = 0
  /\ half = <<>>
  /\ calAngle = 0 /\ calPulse = 0 /\ calReply = "none"

----------------------------------------------------------------------------
(* loop(): the polls, the stop gate and the step gate (lines 243-264 and   *)
(* 288-290).  When a step is due the tick goes on in loop_scan.            *)
(* The mode indicators ledYellow and ledBlue are not modelled.             *)

\* Mutant: the stop flag is not consulted.
sweepAllowed_always(stop) == TRUE

\* if (!emergency_stop) ... else stop_all();
sweepAllowed(stop) == ~stop

loop ==
  /\ pc = "loop"
  /\ LET s == stop_checkButton(stopPin)
         m == mode_checkButton(modePin)
         due == stepDue(clock, lastStepTime)
         lit == [pins EXCEPT !.green = HIGH, !.red = LOW]
     IN /\ stop_buttonstate' = s.state
        /\ stop_WasPressed' = s.was
        /\ emergency_stop' = s.flag
        /\ mode_buttonstate' = m.state
        /\ mode_WasPressed' = m.was
        /\ currentMode' = m.flag
        /\ incrementAngle' = stepSize(m.flag)
        /\ IF sweepAllowed(s.flag)
           THEN IF due
                THEN /\ lastStepTime' = clock
                     /\ pins' = lit
                     /\ pc' = "scan"
                ELSE /\ pins' = lit
                     /\ UNCHANGED <<lastStepTime, pc>>
           ELSE /\ pins' = stop_all(pins)
                /\ UNCHANGED <<lastStepTime, pc>>
        /\ stopToggles' = IF s.hit THEN Min(stopToggles + 1, 2) ELSE stopToggles
        /\ modeToggles' = IF m.hit THEN Min(modeToggles + 1, 2) ELSE modeToggles
  /\ serial' = <<>>
  /\ servo' = <<>>
  /\ trig' = 0
  /\ UNCHANGED <<ang, direction, repeatBoundary, firstCycle>>
  /\ UNCHANGED <<envVars, lineVars, calVars>>

(* loop(), from scanAtAngle to the end of the step (lines 265-286), the    *)
(* measurements returning `echoes`.                                        *)
scanStep(echoes) ==
  /\ pc = "scan"
  /\ LET r == scanAtAngle(ang, echoes)
     IN /\ serial' = <<sendAngleBlock(ang, r.out, currentMode)>>
        /\ servo' = r.servo
        /\ trig' = r.trig
  /\ LET nxt == sweepStep(ang, direction, repeatBoundary, firstCycle, incrementAngle)
     IN /\ ang' = nxt.ang
        /\ direction' = nxt.direction
        /\ repeatBoundary' = nxt.repeatBoundary
        /\ firstCycle' = nxt.firstCycle
        /\ turned' = (nxt.direction # direction)
  /\ pc' = "loop"
  /\ lastAng' = ang
  /\ runLen' = IF lastAng = ang THEN Min(runLen + 1, MaxRun) ELSE 1
  /\ nLines' = Min(nLines + 1, MaxLines)
  /\ UNCHANGED <<emergency_stop, currentMode, stop_WasPressed, mode_WasPressed,
                 stop_buttonstate, mode_buttonstate, incrementAngle,
                 lastStepTime, pins>>
  /\ UNCHANGED <<envVars, tapVars, calVars>>

loop_scan == \E echoes \in EchoRuns : scanStep(echoes)

\* The step whose measurements return scanIn; the buffer that scanAtAngle
\* leaves and the frames and pulses it sends are recorded.
loop_scanIn ==
  /\ scanStep(scanIn)
  /\ scanOut' = scanAtAngle(ang, scanIn).out
  /\ scanLog' = scanAtAngle(ang, scanIn).log
  /\ UNCHANGED <<half, scanIn, sinceStep>>

----------------------------------------------------------------------------
(* Environment.  An input level lasts at least until it has been polled   *)
(* (the level last polled is then the level of the input), except while    *)
(* loop() is blocked in a step, which lasts 230 ms or more: a press or a   *)
(* release can begin and end within one step.                              *)

StopPress ==
  /\ stopPin = LOW
  /\ stop_buttonstate = stopPin \/ pc = "scan"
  /\ stopPin' = HIGH
  /\ stopToggles' = 0
  /\ UNCHANGED <<progVars, modePin, clock, outVars, modeToggles, lineVars, calVars>>

StopRelease ==
  /\ stopPin = HIGH
  /\ stop_buttonstate = stopPin \/ pc = "scan"
  /\ stopPin' = LOW
  /\ UNCHANGED <<progVars, modePin, clock, outVars, tapVars, lineVars, calVars>>

ModePress ==
  /\ modePin = LOW
  /\ mode_buttonstate = modePin \/ pc = "scan"
  /\ modePin' = HIGH
  /\ modeToggles' = 0
  /\ UNCHANGED <<progVars, stopPin, clock, outVars, stopToggles, lineVars, calVars>>

ModeRelease ==
  /\ modePin = HIGH
  /\ mode_buttonstate = modePin \/ pc = "scan"
  /\ modePin' = LOW
  /\ UNCHANGED <<progVars, stopPin, clock, outVars, tapVars, lineVars, calVars>>

\* The next tick of loop() would start a step.  Idle ticks follow each
\* other within microseconds, so a due step starts before the clock moves.
stepPending ==
  /\ pc = "loop"
  /\ sweepAllowed(stop_checkButton(stopPin).flag)
  /\ stepDue(clock, lastStepTime)

\* Time passes: a quantum, or a long idle period up to the wrap-around.
Elapse ==
  /\ ~stepPending
  /\ InWindow(Add32(clock, Quantum))
  /\ clock' = Add32(clock, Quantum)
  /\ UNCHANGED <<progVars, stopPin, modePin, outVars, tapVars, lineVars, calVars>>

Idle ==
  /\ ~stepPending
  /\ clock.hi = 0
  /\ ~InWindow(Add32(clock, Quantum))
  /\ clock' = [hi |-> Half16 - 1, lo |-> Half16 - Window]
  /\ UNCHANGED <<progVars, stopPin, modePin, outVars, tapVars, lineVars, calVars>>

----------------------------------------------------------------------------
(* servo_calibration.ino: loop() with a line available on Serial whose     *)
(* toInt() is `angle`.                                                     *)

calibration_loop ==
  /\ \E angle \in (0 - MaxOver)..(180 + MaxOver) :
       /\ calAngle' = angle
       /\ IF angle >= 0 /\ angle <= 180
          THEN /\ calPulse' = setServoAngle(angle).high
               /\ calReply' = "set"
          ELSE /\ calPulse' = 0
               /\ calReply' = "range"
  /\ UNCHANGED <<progVars, envVars, outVars, tapVars, lineVars, sideVars>>

\* setServoAngle(deg) of the rangefinder sketch, called with any integer
\* angle: the frame it sends is recorded.
setServoAngle_call ==
  /\ \E deg \in (0 - MaxOver)..(180 + MaxOver) :
       /\ calAngle' = deg
       /\ calPulse' = setServoAngle(deg).high
       /\ calReply' = "frame"
  /\ UNCHANGED <<progVars, envVars, outVars, tapVars, lineVars, sideVars>>

----------------
(* Specifications *)

Next ==
  \/ loop /\ UNCHANGED sideVars
  \/ loop_scan /\ UNCHANGED sideVars
  \/ StopPress /\ UNCHANGED sideVars
  \/ StopRelease /\ UNCHANGED sideVars
  \/ ModePress /\ UNCHANGED sideVars
  \/ ModeRelease /\ UNCHANGED sideVars
  \/ Elapse /\ UNCHANGED sideVars
  \/ Idle /\ UNCHANGED sideVars

Spec == Init /\ [][Next]_vars

\* The sweep alone: the buttons are never pressed.  half records the angles
\* reported from the line on which direction last reversed (from the first
\* line, before any reversal).
recordHalf ==
  half' = IF turned THEN <<lastAng, ang>> ELSE Append(half, ang)

NextFull ==
  \/ loop /\ UNCHANGED sideVars
  \/ loop_scan /\ recordHalf /\ UNCHANGED <<scanVars, sinceStep>>
  \/ Elapse /\ UNCHANGED sideVars
  \/ Idle /\ UNCHANGED sideVars

SpecFull == Init /\ [][NextFull]_vars

\* The sweep with the time that has really passed since the last step
\* began: a quantum more after Elapse, more than a step interval after Idle.
NextClock ==
  \/ /\ loop
     /\ sinceStep' = IF pc' = "scan" THEN 0 ELSE sinceStep
     /\ UNCHANGED <<half, scanVars>>
  \/ loop_scan /\ UNCHANGED sideVars
  \/ StopPress /\ UNCHANGED sideVars
  \/ StopRelease /\ UNCHANGED sideVars
  \/ ModePress /\ UNCHANGED sideVars
  \/ ModeRelease /\ UNCHANGED sideVars
  \/ /\ Elapse
     /\ sinceStep' = Min(sinceStep + Quantum, stepInterval)
     /\ UNCHANGED <<half, scanVars>>
  \/ /\ Idle
     /\ sinceStep' = stepInterval
     /\ UNCHANGED <<half, scanVars>>

SpecClock == Init /\ [][NextClock]_vars

\* loop() is called again and again, a blocked step ends (every pulseIn has
\* a timeout), and time passes.
SpecLive ==
  /\ Spec
  /\ WF_vars(loop /\ UNCHANGED sideVars)
  /\ WF_vars(loop_scan /\ UNCHANGED sideVars)
  /\ WF_vars((Elapse \/ Idle) /\ UNCHANGED sideVars)

\* The calibration sketch alone.
SpecServo == Init /\ [][calibration_loop]_vars

\* One step of the sweep, for every combination of measurement outcomes.
SpecScan == InitScan /\ [][loop_scanIn]_vars

\* The actuator of the rangefinder sketch alone.
SpecActuator == Init /\ [][setServoAngle_call]_vars

----------------------------------------------------------------------------
(* Properties *)

AtBoundary(a) == a = startAngle \/ a = endAngle

\* A tick of loop() polls the buttons: it starts at "loop" and leaves the
\* inputs and the clock alone.
PollStep == pc = "loop" /\ UNCHANGED <<stopPin, modePin, clock>>

\* A step completes: its report line is printed and the angle state updated.
StepDone == pc = "scan" /\ pc' = "loop"

angleState == <<ang, direction, repeatBoundary, firstCycle>>

\* C1: whenever emergency_stop is true (it changes only at the poll of a
\* tick), the tick has printed no report line, sent no servo frame and no
\* trigger pulse, is not inside a step, and holds trig_pin and pinServo LOW;
\* and no step of the system that ends with emergency_stop true changes
\* ang, direction, repeatBoundary or firstCycle.
C1_StopGating ==
  /\ [](emergency_stop =>
          /\ serial = <<>> /\ servo = <<>> /\ trig = 0
          /\ pc = "loop"
          /\ pins.trig = LOW /\ pins.servo = LOW)
  /\ [][emergency_stop' => UNCHANGED angleState]_vars

\* C1 witness: a tick has polled the released stop button while stopped,
\* with a step overdue and lines already reported.
C1_Witness ==
  /\ emergency_stop
  /\ stop_buttonstate = LOW
  /\ stepDue(clock, lastStepTime)
  /\ nLines > 0

\* C2: a step taken at a boundary follows the three-way rule (first cycle:
\* clear the flag and advance without reversing; repeat not pending: set it
\* and keep ang and direction; repeat pending: clear it, negate direction,
\* advance), and once firstCycle is false a run of report lines at a
\* boundary angle has exactly two lines, direction being negated by the
\* step of the second line and not by the step of the first.
C2_BoundaryRule ==
  [][StepDone /\ AtBoundary(ang) =>
       /\ IF firstCycle
          THEN /\ ~firstCycle'
               /\ direction' = direction
               /\ repeatBoundary' = repeatBoundary
               /\ ang' = ang + direction * incrementAngle
          ELSE IF ~repeatBoundary
          THEN /\ repeatBoundary'
               /\ ang' = ang
               /\ direction' = direction
               /\ ~firstCycle'
          ELSE /\ ~repeatBoundary'
               /\ direction' = 0 - direction
               /\ ang' = ang + direction' * incrementAngle
               /\ ~firstCycle'
       /\ ~firstCycle =>
            /\ runLen' \in {1, 2}
            /\ runLen' = 1 => ang' = ang /\ direction' = direction
            /\ runLen' = 2 => ang' # ang /\ direction' = 0 - direction
  ]_vars

\* C2 witness: after a mode toggle and a stop period, the second line of a
\* run at endAngle has been reported and direction has been negated.
C2_Witness ==
  /\ lastAng = endAngle /\ runLen = 2 /\ turned /\ direction = -1
  /\ currentMode = 1
  /\ stop_WasPressed

\* C3 as stated: when a report line follows a line at a boundary angle and
\* carries another angle, the run of lines at that boundary angle that has
\* just ended has at least two lines, the run at startup included.
C3_EveryBoundaryRunRepeats ==
  [][StepDone /\ AtBoundary(lastAng) /\ ang # lastAng => runLen >= 2]_vars

\* C3 amended: such a run has exactly two lines, except the run of the very
\* first report line (startAngle at startup), which has exactly one: the
\* second report line carries another angle.
C3_BoundaryRunsButFirst ==
  /\ [][StepDone /\ AtBoundary(lastAng) /\ ang # lastAng =>
          IF nLines = 1 THEN runLen = 1 ELSE runLen = 2]_vars
  /\ [][StepDone /\ nLines = 1 => lastAng = startAngle /\ ang # lastAng]_vars

\* C3 witness: the line after the two lines at endAngle has been reported.
C3_Witness ==
  /\ direction = -1 /\ lastAng < endAngle /\ lastAng >= endAngle - 20
  /\ runLen = 1 /\ nLines = MaxLines

FullGrid == {startAngle + 10 * k : k \in 0..12}

\* C4: with the buttons never pressed (mode 1, no stop), when direction has
\* just been negated the lines reported since the line of the previous
\* reversal (since the first line, before any reversal) are the 13 angles
\* 30, 40, ..., 150 in strictly increasing or strictly decreasing order,
\* followed by the last of them once more: the boundary angle is reported
\* in two consecutive lines before direction is negated.
C4_HalfSweep ==
  /\ Len(half) <= 14
  /\ \A i \in 1..(Len(half) - 1) :
       \/ half[i + 1] - half[i] = (IF half[1] = startAngle THEN 10 ELSE -10)
       \/ i = 13 /\ half[14] = half[13]
  /\ turned =>
       /\ Len(half) = 14
       /\ {half[i] : i \in 1..13} = FullGrid
       /\ half[14] = half[13] /\ AtBoundary(half[14])
       /\ half[1] = (IF half[14] = endAngle THEN startAngle ELSE endAngle)
  /\ currentMode = 0 /\ ~emergency_stop
  /\ serial # <<>> => serial[1].mode = 1 /\ serial[1].angle = half[Len(half)]

\* C4 witness: a downward half-sweep has been completed at startAngle.
C4_Witness ==
  turned /\ direction = 1 /\ half[1] = endAngle /\ Len(half) = 14

\* C5: ang lies in [startAngle, endAngle] in every state, and every report
\* line and servo frame carries an angle of that range (a pulse width of
\* 833..2166 us).
C5_AngleInRange ==
  /\ ang >= startAngle /\ ang <= endAngle
  /\ serial # <<>> =>
       /\ serial[1].angle >= startAngle /\ serial[1].angle <= endAngle
       /\ Len(servo) = 1
       /\ servo[1].high >= 833 /\ servo[1].high <= 2166

\* C5 witness: a 20-degree step from 140 was clamped to endAngle.
C5_Witness ==
  ang = endAngle /\ lastAng = endAngle - 10 /\ incrementAngle = 20 /\ direction = 1

polledState == <<emergency_stop, currentMode, stop_WasPressed, mode_WasPressed,
                 stop_buttonstate, mode_buttonstate>>

\* C6: when a press ends (the input falls from HIGH to LOW), the flag of
\* that button has been toggled exactly once since the input rose.
C6_EveryPressToggles ==
  [][/\ stopPin = HIGH /\ stopPin' = LOW => stopToggles = 1
     /\ modePin = HIGH /\ modePin' = LOW => modeToggles = 1]_vars

\* C7: a poll toggles a flag exactly when it reads HIGH and the previously
\* polled level was LOW (LOW before the first poll), which is exactly when
\* the latch is clear; only a poll changes a flag, a latch or a polled
\* level; and a latch is cleared only by a poll that reads LOW.
C7_EdgeLatch ==
  /\ [](stop_WasPressed = (stop_buttonstate = HIGH))
  /\ [](mode_WasPressed = (mode_buttonstate = HIGH))
  /\ [][PollStep =>
          /\ (emergency_stop' # emergency_stop)
               = (stopPin = HIGH /\ stop_buttonstate = LOW)
          /\ (currentMode' # currentMode)
               = (modePin = HIGH /\ mode_buttonstate = LOW)
          /\ stop_buttonstate' = stopPin
          /\ mode_buttonstate' = modePin]_vars
  /\ [][~PollStep => UNCHANGED polledState]_vars
  /\ [][stop_WasPressed /\ ~stop_WasPressed' => PollStep /\ stopPin = LOW]_vars
  /\ [][mode_WasPressed /\ ~mode_WasPressed' => PollStep /\ modePin = LOW]_vars

\* C7 witness: both buttons are held down and latched, each press having
\* toggled its flag once, with a step overdue (ticks keep polling HIGH).
C7_Witness ==
  /\ stopPin = HIGH /\ stop_WasPressed /\ stopToggles = 1 /\ emergency_stop
  /\ modePin = HIGH /\ mode_WasPressed /\ modeToggles = 1 /\ currentMode = 1
  /\ stepDue(clock, lastStepTime)

\* C8: inside a step emergency_stop is false and stays false whatever the
\* stop input does; the step can always complete, and when it does it has
\* sent one servo frame and ten trigger pulses, printed the line of ang and
\* updated the angle state; emergency_stop changes only at a poll.
C8_StepRunsToCompletion ==
  /\ [](pc = "scan" =>
          /\ ~emergency_stop
          /\ ENABLED (loop_scan /\ UNCHANGED sideVars))
  /\ [][pc = "scan" =>
          /\ emergency_stop' = emergency_stop
          /\ pc' = "loop" =>
               /\ Len(serial') = 1 /\ serial'[1].angle = ang
               /\ Len(servo') = 1 /\ trig' = 10
               /\ angleState' # angleState]_vars
  /\ [][emergency_stop' # emergency_stop => PollStep]_vars

\* C8 witness: a step has completed and printed its line with the stop
\* input HIGH and not yet polled, emergency_stop still false.
C8_Witness ==
  /\ pc = "loop" /\ serial # <<>> /\ trig = 10
  /\ stopPin = HIGH /\ stop_buttonstate = LOW
  /\ ~emergency_stop

Reported(m, a) ==
  serial # <<>> /\ serial[1].mode = m + 1 /\ serial[1].angle = a

ExpectedAngles(m) ==
  IF m = 0 THEN {startAngle + 10 * k : k \in 0..12}
  ELSE {startAngle + 20 * k : k \in 0..5}

\* C9: in every behaviour in which, from some point on, emergency_stop stays
\* false and currentMode stays m, every expected angle of mode m is reported
\* again and again in a line tagged with m.
C9_SweepForever ==
  \A m \in {0, 1} : \A a \in ExpectedAngles(m) :
    <>[](~emergency_stop /\ currentMode = m) => []<>Reported(m, a)

\* C9 witness: a line tagged mode 2 has been reported at an angle off the
\* 20-degree grid (the mode was switched at such an angle).
C9_Witness ==
  serial # <<>> /\ serial[1].mode = 2 /\ serial[1].angle = startAngle + 10

\* The integer nearest to n / d, for n >= 0 and d > 0.
RoundDiv(n, d) == (2 * n + d) \div (2 * d)

\* C10 as stated: an accepted angle a of 0..180 is sent the pulse width
\* round(500 + a * 2000 / 180).
C10_RoundedPulse ==
  calReply = "set" => calPulse = RoundDiv(500 * 180 + calAngle * 2000, 180)

\* C10 amended: an accepted angle a of 0..180 is sent the pulse width
\* 500 + floor(a * 2000 / 180), which is the nearest integer or one less.
C10_TruncatedPulse ==
  calReply = "set" =>
    /\ calAngle >= 0 /\ calAngle <= 180
    /\ calPulse = (500 * 180 + calAngle * 2000) \div 180
    /\ RoundDiv(500 * 180 + calAngle * 2000, 180) - calPulse \in {0, 1}

\* C10 witness: angle 5 was sent 555 us, where the nearest integer is 556.
C10_Witness ==
  calReply = "set" /\ calAngle = 5 /\ calPulse = 555

\* C11: every angle commanded to setServoAngle, in range or not, is sent a
\* frame (none is rejected) whose pulse width lies in [500, 2500]; an angle
\* below 0 is sent 500 as angle 0 is, an angle above 180 is sent 2500 as
\* angle 180 is; and of two successive commands the one with the larger
\* angle is never sent the shorter pulse.
C11_SaturatingMap ==
  /\ [](calReply = "frame" =>
          /\ calPulse >= 500 /\ calPulse <= 2500
          /\ calAngle <= 0 => calPulse = 500
          /\ calAngle >= 180 => calPulse = 2500
          /\ calAngle > 0 /\ calAngle < 180 => calPulse > 500 /\ calPulse < 2500)
  /\ [][calReply' = "frame"]_vars
  /\ [][calReply = "frame" /\ calAngle <= calAngle' => calPulse <= calPulse']_vars

\* C11 witness: the largest angle above 180 was sent the pulse of 180.
C11_Witness ==
  calReply = "frame" /\ calAngle = 180 + MaxOver /\ calPulse = 2500

\* The sum of the values of the slots S of the buffer out.
RECURSIVE SumOver(_, _)
SumOver(out, S) ==
  IF S = {} THEN 0
  ELSE LET i == CHOOSE j \in S : TRUE
       IN out[i].v + SumOver(out, S \ {i})

\* The slots of scanOut that hold a finite, strictly positive value.
PositiveSlots == {i \in 1..10 : ~scanOut[i].nan /\ scanOut[i].v > 0}

\* C12: after the step, for every combination of the ten outcomes, slot i
\* of the buffer holds the calibrated result of measurement i (NaN for a
\* timeout, a value <= 0 for the short echo, a value > 0 otherwise: none is
\* dropped or replaced); when some slot is finite and positive, the mean
\* slot is the sum of exactly the finite positive slots divided by their
\* number (to the fixed-point unit); with ten of them it is the mean of
\* the ten slots.
C12_BufferAndMean ==
  scanOut # <<>> =>
    /\ DOMAIN scanOut = 1..11
    /\ \A i \in 1..10 :
         /\ scanOut[i] = sensorCalibration(readDistanceCm(scanIn[i]))
         /\ scanIn[i] = 0 => scanOut[i].nan
         /\ scanIn[i] = 20 => ~scanOut[i].nan /\ scanOut[i].v <= 0
         /\ scanIn[i] > 20 => ~scanOut[i].nan /\ scanOut[i].v > 0
    /\ PositiveSlots # {} =>
         /\ ~scanOut[11].nan
         /\ scanOut[11].v =
              SumOver(scanOut, PositiveSlots) \div Cardinality(PositiveSlots)
    /\ PositiveSlots = 1..10 =>
         scanOut[11].v = SumOver(scanOut, 1..10) \div 10

\* C12 witness: a step with a timeout in slot 1, a negative value in slot 2
\* and positive values in slots 3 and 4 only, whose mean is in slot 11.
C12_Witness ==
  /\ scanOut # <<>>
  /\ scanOut[1].nan /\ scanOut[2].v < 0 /\ PositiveSlots = {3, 4}
  /\ scanOut[11].v = (scanOut[3].v + scanOut[4].v) \div 2
  /\ scanOut[3].v # scanOut[4].v

\* C13: after a step none of whose ten slots is finite and positive, the
\* mean slot is NaN (not 0 or any other number), the one report line of
\* the step prints NaN in its mean field and NaN in the field of every
\* slot that timed out, and the step has completed as any other: one servo
\* frame, ten trigger pulses, the line of the angle scanned, the angle
\* advanced, loop() returned.
C13_NoValidSample ==
  scanOut # <<>> /\ PositiveSlots = {} =>
    /\ scanOut[11] = NaN
    /\ Len(serial) = 1
    /\ serial[1].fields[11].nan
    /\ \A i \in 1..10 : serial[1].fields[i].nan = scanOut[i].nan
    /\ serial[1].angle = startAngle
    /\ Len(servo) = 1 /\ trig = 10
    /\ pc = "loop" /\ ang = startAngle + incrementAngle /\ nLines = 1

\* C13 witness: a step whose measurements all timed out but two, which
\* gave negative distances.
C13_Witness ==
  /\ scanOut # <<>> /\ PositiveSlots = {}
  /\ \A i \in 1..10 : scanOut[i].nan = (i \notin {4, 7})
  /\ serial[1].fields[11].nan /\ ~serial[1].fields[4].nan

\* The fields of a report line, in the order printed.
LineFields(l) == <<l.mode, l.angle>> \o l.fields

\* C14: the completion of a step prints exactly one report line and counts
\* it, and nothing else prints or counts a line; a line has 13 fields: the
\* mode id, which is 1 when currentMode is 0 (MODE 1) and 2 when it is 1
\* (MODE 2), the angle scanned, and the 11 slots of the buffer, be they
\* numbers or NaN.
C14_OneLinePerStep ==
  /\ [][StepDone =>
          /\ Len(serial') = 1
          /\ nLines' = Min(nLines + 1, MaxLines)
          /\ Len(LineFields(serial'[1])) = 13
          /\ DOMAIN serial'[1].fields = 1..11
          /\ serial'[1].mode = (IF currentMode = 0 THEN 1 ELSE 2)
          /\ serial'[1].angle = ang]_vars
  /\ [][~StepDone =>
          /\ serial' = <<>> \/ serial' = serial
          /\ nLines' = nLines]_vars
  /\ [](serial # <<>> => serial[1].mode \in {1, 2} /\ currentMode \in {0, 1})

\* C14 witness: a line tagged 2 has been printed whose 11 slots are all NaN,
\* after a line of another step.
C14_Witness ==
  /\ serial # <<>> /\ serial[1].mode = 2 /\ nLines = MaxLines
  /\ \A i \in 1..11 : serial[1].fields[i].nan

\* The angle state that follows <<a, dir, rep, first>> in a run that is
\* never stopped, for a step taken in mode m.
SweepSuccessor(a, dir, rep, first, m) ==
  LET inc == IF m = 0 THEN 10 ELSE 20
      fwd == Min(endAngle, IF a + dir * inc < startAngle THEN startAngle
                           ELSE a + dir * inc)
      back == Min(endAngle, IF a - dir * inc < startAngle THEN startAngle
                            ELSE a - dir * inc)
  IN IF ~AtBoundary(a) THEN <<fwd, dir, rep, first>>
     ELSE IF first THEN <<fwd, dir, rep, FALSE>>
     ELSE IF ~rep THEN <<a, dir, TRUE, FALSE>>
     ELSE <<back, 0 - dir, FALSE, FALSE>>

\* C15: the angle state (angle, direction, repeat-pending and first-cycle
\* flags) changes only when a step completes, so it is held from the tick
\* that sets emergency_stop to the first step after it is cleared; every
\* step, that one included, is taken with emergency_stop false, sends the
\* frame of the held angle and reports it, and leaves the angle state that
\* a never-stopped run leaves from the same angle state and mode: whether
\* and how long the sweep was stopped has no effect on the sequence of
\* reported angles.
C15_StopDoesNotInterfere ==
  /\ [][~StepDone => UNCHANGED angleState]_vars
  /\ [][StepDone =>
          /\ ~emergency_stop /\ ~emergency_stop'
          /\ Len(serial') = 1 /\ serial'[1].angle = ang
          /\ Len(servo') = 1 /\ servo'[1].high = usFromAngle(ang)
          /\ angleState' =
               SweepSuccessor(ang, direction, repeatBoundary, firstCycle,
                              currentMode)]_vars

\* C15 witness: the press that cleared emergency_stop is still held down
\* and the step begun by the tick that polled it has reported endAngle for
\* the first time and set the repeat-pending flag.
C15_Witness ==
  /\ stopPin = HIGH /\ stop_WasPressed /\ stopToggles = 1 /\ ~emergency_stop
  /\ serial # <<>> /\ serial[1].angle = endAngle
  /\ repeatBoundary /\ ang = endAngle /\ direction = 1

\* C16: incrementAngle always is the step size of currentMode (10 for
\* MODE 1, 20 for MODE 2), and neither changes inside a step, whatever the
\* mode button does; so the step that prints a line tagged 1 either keeps
\* the angle (the first line at a boundary) or moves it, in the direction
\* it leaves, by min(10, distance to the boundary in that direction), and
\* the step that prints a line tagged 2 does so with 20.
C16_TagAndStepAgree ==
  /\ [](incrementAngle = (IF currentMode = 0 THEN 10 ELSE 20))
  /\ [][pc = "scan" => UNCHANGED <<currentMode, incrementAngle>>]_vars
  /\ [][StepDone =>
          LET size == IF serial'[1].mode = 1 THEN 10 ELSE 20
              ahead == IF direction' = 1 THEN endAngle - ang ELSE ang - startAngle
          IN /\ serial'[1].mode = currentMode + 1
             /\ \/ ang' = ang /\ AtBoundary(ang) /\ repeatBoundary'
                \/ ang' = ang + direction' * Min(size, ahead) /\ ang' # ang]_vars

\* C16 witness: the step tagged 2 at 140 has moved the angle by 10, to
\* endAngle, and the mode button was pressed during that step.
C16_Witness ==
  /\ serial # <<>> /\ serial[1].mode = 2 /\ serial[1].angle = endAngle - 10
  /\ ang = endAngle
  /\ modePin = HIGH /\ mode_buttonstate = LOW /\ currentMode = 1

StopEdge == stopPin = HIGH /\ ~stop_WasPressed
ModeEdge == modePin = HIGH /\ ~mode_WasPressed

\* C17: between steps a tick of loop() can always run, and every tick,
\* stopped or not, step due or not, reads both inputs; a rising edge it
\* reads acts in that tick: a stop edge negates emergency_stop, the tick
\* starts a step exactly when emergency_stop is false after the poll and
\* the step is due (an edge that stops prevents a due step, an edge that
\* resumes lets it start), and a mode edge negates currentMode and sets
\* the step size, also while stopped; currentMode changes in no other
\* way, so the next step is tagged with it.
C17_PollEveryTick ==
  /\ [](pc = "loop" => ENABLED (loop /\ UNCHANGED sideVars))
  /\ [][PollStep =>
          /\ stop_buttonstate' = stopPin /\ mode_buttonstate' = modePin
          /\ emergency_stop' = (IF StopEdge THEN ~emergency_stop ELSE emergency_stop)
          /\ currentMode' = (IF ModeEdge THEN 1 - currentMode ELSE currentMode)
          /\ incrementAngle' = (IF currentMode' = 0 THEN 10 ELSE 20)
          /\ (pc' = "scan") = (~emergency_stop' /\ stepDue(clock, lastStepTime))
          /\ pc' = "loop" => lastStepTime' = lastStepTime]_vars
  /\ [][currentMode' # currentMode => PollStep /\ ModeEdge]_vars
  /\ [][StepDone => serial'[1].mode = currentMode + 1]_vars

\* C17 witness: while stopped (the stop input LOW), with a step overdue, a
\* tick has polled a mode edge and switched to MODE 2.
C17_Witness ==
  /\ emergency_stop /\ stopPin = LOW /\ stop_buttonstate = LOW
  /\ modePin = HIGH /\ mode_WasPressed /\ modeToggles = 1
  /\ currentMode = 1 /\ incrementAngle = 20
  /\ stepDue(clock, lastStepTime) /\ pc = "loop"

\* The tick starts a step.
StepBegins == PollStep /\ pc' = "scan"

\* C18: a tick starts a step exactly when emergency_stop is false after
\* its poll and the unsigned 32-bit difference clock - lastStepTime is at
\* least 500, and it then sets lastStepTime to the clock; whenever a step
\* starts, at least 500 ms have really passed since the previous step
\* started (since the start, for the first step), also when the clock has
\* wrapped around in between; and a tick starts at most one step: inside
\* a step no step starts, the step ends the tick.
C18_StepGate ==
  /\ [][PollStep =>
          /\ (pc' = "scan") =
               (~emergency_stop'
                /\ Geq32(Sub32(clock, lastStepTime), stepInterval))
          /\ lastStepTime' = (IF pc' = "scan" THEN clock ELSE lastStepTime)]_vars
  /\ [][StepBegins => sinceStep >= stepInterval /\ sinceStep' = 0]_vars
  /\ [][pc = "scan" => lastStepTime' = lastStepTime /\ pc' \in {"scan", "loop"}]_vars
  /\ [](pc = "scan" => ~emergency_stop)

\* C18 witness: the second step has begun at clock 250, 500 ms after the
\* first, which began 250 ms before the clock wrapped around.
C18_Witness ==
  /\ pc = "scan" /\ nLines = 1 /\ sinceStep = 0
  /\ lastStepTime = [hi |-> 0, lo |-> Quantum]

\* C19: a step that has begun completes in one piece whatever its ten
\* measurements return (it can complete when none of them is valid), and
\* when it has, it has sent one servo frame, for the angle scanned, and
\* after it ten trigger pulses, the i-th for slot i: a timeout or a
\* non-positive result adds no pulse and skips no slot.
C19_NoRetry ==
  /\ [](pc = "scan" /\ (\A i \in 1..10 : scanIn[i] \in {0, 20}) =>
          ENABLED loop_scanIn)
  /\ [][pc = "scan" => pc' = "loop" /\ scanOut' # <<>>]_vars
  /\ [](scanOut # <<>> =>
          /\ pc = "loop"
          /\ Len(scanLog) = 11
          /\ scanLog[1] = [op |-> "servo", arg |-> 833]
          /\ \A i \in 1..10 : scanLog[i + 1] = [op |-> "trig", arg |-> i]
          /\ Len(servo) = 1 /\ trig = 10)

\* C19 witness: a step whose ten measurements all timed out has completed.
C19_Witness ==
  /\ scanOut # <<>> /\ pc = "loop"
  /\ \A i \in 1..10 : scanIn[i] = 0
  /\ Len(scanLog) = 11

SparseGrid == {startAngle + 20 * k : k \in 0..6}

\* C20: every report line tagged with mode id 2 carries an angle of the
\* 20-degree grid 30, 50, ..., 150.
C20_SparseLinesOnGrid ==
  serial # <<>> /\ serial[1].mode = 2 => serial[1].angle \in SparseGrid

\* C21: in every reachable state ang is one of 30, 40, ..., 150 (30 plus a
\* multiple of 10), and so is the angle of every report line and of the
\* line before it, whatever mode toggles, stop periods and clamps at the
\* boundaries came before.
C21_AnglesOnFullGrid ==
  /\ ang \in FullGrid
  /\ (ang - startAngle) % 10 = 0
  /\ lastAng # 0 => lastAng \in FullGrid
  /\ serial # <<>> => serial[1].angle \in FullGrid /\ serial[1].angle = lastAng

\* C21 witness: on the way down, after the clamp at endAngle, mode toggles
\* and a stop period ended by a press still held, a line tagged 2 has been
\* reported at 120 and the angle moved to 100.
C21_Witness ==
  /\ serial # <<>> /\ serial[1].mode = 2 /\ serial[1].angle = endAngle - 30
  /\ direction = -1 /\ ang = endAngle - 50
  /\ stopPin = HIGH /\ stop_WasPressed /\ stopToggles = 1 /\ ~emergency_stop
====
